---- MODULE Spec2Model ----
(***************************************************************************)
(* Coordination layer of expo-gemma (build/ExpoLlmMediapipeModule.js):     *)
(* the generation requests of generateStreamingText and of the useLLM      *)
(* hooks (generateResponse, generateStreamingResponse), the event bus they *)
(* subscribe to, and the model-handle lifecycle of the asset/file hook     *)
(* (_useLLMBase).  The native module is an opaque environment: it          *)
(* publishes events and settles the calls it was given on its own          *)
(* schedule.                                                               *)
(*                                                                         *)
(* A text is a sequence of chunks (<<"He", "llo">> is "Hello"); the        *)
(* JavaScript side is single-threaded, so every listener, promise reaction *)
(* and effect flush is one atomic action.                                  *)
(***************************************************************************)
EXTENDS Integers, Sequences, FiniteSets, TLC

VARIABLES
    reqs,              \* the generation requests issued so far, in issue order
    subs,              \* the listeners registered on the event bus
    nextRequestIdRef,  \* the hook instance's request counter
    evCount,           \* events published so far (bounds the run)
    modelHandle,       \* the hook's modelHandle state
    mounted,           \* whether the hook's component is mounted
    config,            \* the configuration identity of the current props
    creates,           \* the native create calls issued (for the downloadable
                       \* hook: its loadModel calls, issuing one or not)
    releaseCalls,      \* the native releaseModel calls issued, in order
    installed,         \* every handle setModelHandle was ever given
    nativeNext,        \* the next handle the native side hands out
    downloadStatus,    \* the downloadStatus state (downloadable hook, LocalModelProvider)
    downloadProgress,  \* the downloadProgress state
    downloadError,     \* the downloadError state ("" is null)
    isCheckingStatus,  \* the downloadable hook's existence probe is pending
    models,            \* ModelManager.models: registered name -> record
    probes,            \* names whose ModelManager.checkModelStatus probe is pending
    notifyCount,       \* how often ModelManager.notifyListeners has run
    downloads,         \* the downloadModel calls made so far, in call order
    dlEvents,          \* downloadProgress events published so far (bounds the run)
    lastNotice,        \* modelName and status of the last downloadProgress event
    cancelAcks,        \* names whose cancelDownload the native side acknowledged
    modelHandleRef,    \* LocalModelProvider's modelHandleRef.current
    isSettingUp,       \* LocalModelProvider's isSettingUp state
    seenIsSettingUp,   \* isSettingUp as the callbacks of the last render closed over it
    hasLocalModel,     \* LocalModelProvider's hasLocalModel state
    file,              \* what is stored at the model path
    runs,              \* the setupModel / clearModelCache runs started so far
    releaseThrew,      \* some releaseModelHandle call threw to its caller
    deletes,           \* the ModelManager.deleteModel calls made so far, in call order
    registerCalls,     \* how often ModelManager.registerModel has been called
    probeCalls,        \* how often ModelManager.checkModelStatus has been started
    observed,          \* ModelManager.listeners: observer -> the record map it was last given
    unsubscribes       \* the unsubscribe functions the application holds, in the order
                       \* addListener returned them

genVars == <<reqs, subs, nextRequestIdRef, evCount>>
hookVars == <<mounted, config, creates, releaseCalls, installed, nativeNext>>
dlVars == <<downloadStatus, downloadProgress, downloadError, isCheckingStatus>>
mgrVars == <<models, probes, notifyCount>>
xferVars == <<downloads, dlEvents, lastNotice, cancelAcks>>
provVars == <<modelHandleRef, isSettingUp, seenIsSettingUp, hasLocalModel, file, runs,
              releaseThrew>>
regVars == <<deletes, registerCalls, probeCalls, observed, unsubscribes>>
extVars == <<dlVars, mgrVars, xferVars, provVars, regVars>>
vars == <<reqs, subs, nextRequestIdRef, evCount, modelHandle,
          mounted, config, creates, releaseCalls, installed, nativeNext,
          downloadStatus, downloadProgress, downloadError, isCheckingStatus,
          models, probes, notifyCount, downloads, dlEvents, lastNotice,
          cancelAcks, modelHandleRef, isSettingUp, seenIsSettingUp, hasLocalModel,
          file, runs, releaseThrew, deletes, registerCalls, probeCalls, observed, unsubscribes>>

----------------------------------------------------------------------------
(* Bounds of the model *)

MaxReq == 2
MaxEvents == 3
MaxRandomId == 1
MaxManualHandle == 1
MaxCreates == 3
MaxConfig == 2

(* Values *)

Undefined == -1
NoConfig == 0
ManualHandles == 1..MaxManualHandle
HookHandle == MaxManualHandle + 1
RandomIds == 0..MaxRandomId
Chunks == {"He", "llo"}
EventErrors == {"e1"}
NativeErrors == {"n1"}
\* the abortSignal a request is given: not yet aborted, or aborted before the call
\* (a request given no signal behaves as one whose signal is never aborted)
Signals == {"idle", "aborted"}
SubTypes == {"partial", "error"}
ModelNames == {"m1", "m2"}
\* the value of this.models.get(name) for a name that is not registered
NoModel == [url |-> "", status |-> "", progress |-> Undefined, error |-> ""]
NoModels == [n \in {} |-> NoModel]
NoNotice == [modelName |-> "", status |-> ""]
\* ModelManager.listeners = []
NoObservers == [l \in {} |-> NoModels]

----------------------------------------------------------------------------
(* The event bus *)

\* a subscription: the listener of type t that request r registered
Sub(r, t) == [req |-> r, type |-> t]

SubsOf(r) == {Sub(r, t) : t \in SubTypes}

\* module.addListener("onPartialResponse", ...), module.addListener("onErrorResponse", ...)
AddListeners(s, r) == s \cup SubsOf(r)

\* subscription.remove() on the subscriptions of r of the given types; removing a
\* subscription that is no longer registered changes nothing
RemoveListeners(s, r, types) == s \ {Sub(r, t) : t \in types}

----------------------------------------------------------------------------
(* One generation request *)

Event(handle, requestId, payload) ==
    [handle |-> handle, requestId |-> requestId, payload |-> payload]

\* One callback invocation: onPartial(ev.response, ev.requestId) or
\* onError(ev.error, ev.requestId); handle is the handle of the event that
\* caused it (the request's own when the native call's rejection caused it).
Call(arg, requestId, handle) ==
    [arg |-> arg, requestId |-> requestId, handle |-> handle]

NewRequest(kind, handle, requestId, signal, native) ==
    [kind |-> kind, handle |-> handle, requestId |-> requestId,
     signal |-> signal, native |-> native,
     promise |-> "pending", reason |-> "", result |-> <<>>,
     partialCalls |-> <<>>, errorCalls |-> <<>>,
     fullResponse |-> <<>>,
     seen |-> <<>>, errEvent |-> "",
     nativeCalls |-> IF native = "none" THEN 0 ELSE 1]

Streaming(req) == req.kind \in {"text", "stream"}

\* abortSignal?.aborted ?? false
Aborted(req) == req.signal = "aborted"

\* resolve / reject of a promise: only the first one counts
Settle(req, state, reason) ==
    IF req.promise = "pending"
    THEN [req EXCEPT !.promise = state, !.reason = reason]
    ELSE req

\* a filter that forgets to compare the handle
MatchesIgnoringHandle(req, ev) ==
    /\ ev.requestId = req.requestId
    /\ ~Aborted(req)

\* the filter predicate of every listener
Matches(req, ev) ==
    /\ ev.handle = req.handle
    /\ ev.requestId = req.requestId
    /\ ~Aborted(req)

\* a partial listener that reports the first chunk only
PartialListenerOnce(req, ev) ==
    IF Matches(req, ev) /\ req.partialCalls = <<>>
    THEN [req EXCEPT !.partialCalls =
              Append(@, Call(ev.payload, ev.requestId, ev.handle))]
    ELSE req

\* the onPartialResponse listener of a request
PartialListener(req, ev) ==
    IF Matches(req, ev)
    THEN [req EXCEPT !.partialCalls =
              Append(@, Call(ev.payload, ev.requestId, ev.handle))]
    ELSE req

\* the onErrorResponse listener of a streaming request: callback, detach, reject
StreamErrorListener(req, ev) ==
    IF Matches(req, ev)
    THEN Settle([req EXCEPT !.errorCalls =
                     Append(@, Call(ev.payload, ev.requestId, ev.handle))],
                "rejected", ev.payload)
    ELSE req

\* the onErrorResponse listener of the buffering generateResponse: callback only
BufferErrorListener(req, ev) ==
    IF Matches(req, ev)
    THEN [req EXCEPT !.errorCalls =
              Append(@, Call(ev.payload, ev.requestId, ev.handle))]
    ELSE req

ErrorListener(req, ev) ==
    IF Streaming(req) THEN StreamErrorListener(req, ev)
    ELSE BufferErrorListener(req, ev)

\* the subscriptions the error listener removes
ErrorListenerRemoves(req, ev) ==
    IF Streaming(req) /\ Matches(req, ev) THEN {"error", "partial"} ELSE {}

\* the 'abort' listener a streaming request adds to its signal
AbortListener(req) == Settle(req, "rejected", "Aborted")

\* an 'abort' listener that forgets errorSubscription.remove()
AbortListenerRemovesPartialOnly(req) == {"partial"}

\* the subscriptions the 'abort' listener removes
AbortListenerRemoves(req) == {"error", "partial"}

\* a .then that resolves whatever happened before
StreamThenOverrides(req) == [req EXCEPT !.promise = "resolved", !.reason = ""]

\* .then of generateResponseAsync (streaming)
StreamThen(req) ==
    IF ~Aborted(req) THEN Settle(req, "resolved", "") ELSE req

\* a .catch that issues the native call again
StreamCatchRetries(req, err) ==
    [req EXCEPT !.native = "running", !.nativeCalls = @ + 1]

\* .catch of generateResponseAsync (streaming)
StreamCatch(req, err) ==
    IF ~Aborted(req)
    THEN Settle([req EXCEPT !.errorCalls =
                     Append(@, Call(err, req.requestId, req.handle))],
                "rejected", err)
    ELSE req

\* the subscriptions .then / .catch of a streaming request remove
StreamSettleRemoves(req) ==
    IF ~Aborted(req) THEN {"error", "partial"} ELSE {}

\* a return that hands back the last chunk only
BufferThenLastChunk(req, text) ==
    [Settle(req, "resolved", "") EXCEPT
        !.result = IF text = <<>> THEN <<>> ELSE <<text[Len(text)]>>]

\* return await module.generateResponse(...) (buffering)
BufferThen(req, text) ==
    [Settle(req, "resolved", "") EXCEPT !.result = text]

\* catch (e) { onErrorCb(...); throw e } (buffering)
BufferCatch(req, err) ==
    Settle(IF ~Aborted(req)
           THEN [req EXCEPT !.errorCalls =
                     Append(@, Call(err, req.requestId, req.handle))]
           ELSE req,
           "rejected", err)

\* a finally block that forgets errorSub.remove()
BufferFinallyRemovesPartialOnly(req) == {"partial"}

\* finally { partialSub.remove(); errorSub.remove() } (buffering)
BufferFinallyRemoves(req) == {"partial", "error"}

----------------------------------------------------------------------------
(* Issuing requests *)

\* generateStreamingText(modelHandle, input, onPartialResponse, onError, abortSignal);
\* id is the value Math.floor(Math.random() * 1000000) yields, drawn only once the
\* handle has passed the check
GenerateStreamingText(h, id, sig) ==
    /\ Len(reqs) < MaxReq
    /\ IF h = Undefined
       THEN /\ reqs' = Append(reqs,
                  Settle(NewRequest("text", h, Undefined, sig, "none"), "rejected",
                         "Invalid model handle provided to generateStreamingText."))
            /\ subs' = subs
       ELSE /\ reqs' = Append(reqs, NewRequest("text", h, id, sig, "running"))
            /\ subs' = AddListeners(subs, Len(reqs) + 1)
    /\ UNCHANGED <<nextRequestIdRef, evCount, modelHandle>>
    /\ UNCHANGED <<hookVars, extVars>>

\* the hook's generateStreamingResponse ("stream") and generateResponse ("buffer")
HookGenerate(kind, sig) ==
    /\ Len(reqs) < MaxReq
    /\ IF modelHandle = Undefined
       THEN /\ reqs' = Append(reqs,
                  Settle(NewRequest(kind, modelHandle, Undefined, sig, "none"),
                         "rejected", "Model handle is not defined."))
            /\ UNCHANGED <<subs, nextRequestIdRef>>
       ELSE /\ reqs' = Append(reqs,
                  NewRequest(kind, modelHandle, nextRequestIdRef, sig, "running"))
            /\ nextRequestIdRef' = nextRequestIdRef + 1
            /\ subs' = AddListeners(subs, Len(reqs) + 1)
    /\ UNCHANGED <<evCount, modelHandle>>
    /\ UNCHANGED <<hookVars, extVars>>

HookGenerateStreamingResponse(sig) == HookGenerate("stream", sig)

HookGenerateResponse(sig) == HookGenerate("buffer", sig)

----------------------------------------------------------------------------
(* The caller triggers a request's cancellation token *)

Abort(r) ==
    /\ r \in DOMAIN reqs
    /\ reqs[r].signal = "idle"
    /\ reqs[r].native # "none"
    /\ LET flagged == [reqs[r] EXCEPT !.signal = "aborted"]
       IN  /\ reqs' = [reqs EXCEPT ![r] =
                  IF Streaming(flagged) THEN AbortListener(flagged) ELSE flagged]
           /\ subs' = IF Streaming(flagged)
                      THEN RemoveListeners(subs, r, AbortListenerRemoves(flagged))
                      ELSE subs
    /\ UNCHANGED <<nextRequestIdRef, evCount, modelHandle>>
    /\ UNCHANGED <<hookVars, extVars>>

----------------------------------------------------------------------------
(* The native side *)

\* whether the event carries the identity of a request still in flight
InFlightFor(req, ev) ==
    /\ req.promise = "pending"
    /\ req.handle = ev.handle
    /\ req.requestId = ev.requestId

\* the native job of request o publishes onPartialResponse
EmitPartial(o, c) ==
    /\ o \in DOMAIN reqs
    /\ reqs[o].native # "none"
    /\ evCount < MaxEvents
    /\ evCount' = evCount + 1
    /\ LET ev == Event(reqs[o].handle, reqs[o].requestId, c)
           Heard(r) == IF Sub(r, "partial") \in subs
                       THEN PartialListener(reqs[r], ev) ELSE reqs[r]
       IN  reqs' = [r \in DOMAIN reqs |->
                [Heard(r) EXCEPT
                   !.seen = IF InFlightFor(reqs[r], ev) THEN Append(@, c) ELSE @,
                   !.fullResponse = IF r = o /\ reqs[o].native = "running"
                                    THEN Append(@, c) ELSE @]]
    /\ UNCHANGED <<subs, nextRequestIdRef, modelHandle>>
    /\ UNCHANGED <<hookVars, extVars>>

\* the native job of request o publishes onErrorResponse
EmitError(o, e) ==
    /\ o \in DOMAIN reqs
    /\ reqs[o].native # "none"
    /\ evCount < MaxEvents
    /\ evCount' = evCount + 1
    /\ LET ev == Event(reqs[o].handle, reqs[o].requestId, e)
           Hears(r) == Sub(r, "error") \in subs
       IN  /\ reqs' = [r \in DOMAIN reqs |->
                  [(IF Hears(r) THEN ErrorListener(reqs[r], ev) ELSE reqs[r]) EXCEPT
                     !.errEvent = IF InFlightFor(reqs[r], ev) /\ ~Aborted(reqs[r])
                                     /\ @ = ""
                                  THEN e ELSE @]]
           /\ subs' = {x \in subs :
                          ~(Hears(x.req) /\ x.type \in ErrorListenerRemoves(reqs[x.req], ev))}
    /\ UNCHANGED <<nextRequestIdRef, modelHandle>>
    /\ UNCHANGED <<hookVars, extVars>>

\* the native generate call of request r resolves
NativeResolve(r) ==
    /\ r \in DOMAIN reqs
    /\ reqs[r].native = "running"
    /\ LET done == [reqs[r] EXCEPT !.native = "resolved"]
       IN  IF Streaming(done)
           THEN /\ reqs' = [reqs EXCEPT ![r] = StreamThen(done)]
                /\ subs' = RemoveListeners(subs, r, StreamSettleRemoves(done))
           ELSE /\ reqs' = [reqs EXCEPT ![r] = BufferThen(done, done.fullResponse)]
                /\ subs' = RemoveListeners(subs, r, BufferFinallyRemoves(done))
    /\ UNCHANGED <<nextRequestIdRef, evCount, modelHandle>>
    /\ UNCHANGED <<hookVars, extVars>>

\* the native generate call of request r rejects with error e
NativeReject(r, e) ==
    /\ r \in DOMAIN reqs
    /\ reqs[r].native = "running"
    /\ LET done == [reqs[r] EXCEPT !.native = "rejected"]
       IN  IF Streaming(done)
           THEN /\ reqs' = [reqs EXCEPT ![r] = StreamCatch(done, e)]
                /\ subs' = RemoveListeners(subs, r, StreamSettleRemoves(done))
           ELSE /\ reqs' = [reqs EXCEPT ![r] = BufferCatch(done, e)]
                /\ subs' = RemoveListeners(subs, r, BufferFinallyRemoves(done))
    /\ UNCHANGED <<nextRequestIdRef, evCount, modelHandle>>
    /\ UNCHANGED <<hookVars, extVars>>

----------------------------------------------------------------------------
(* The generation specification: a hook instance whose model is loaded or  *)
(* not, and callers of generateStreamingText holding manual handles.       *)

\* no download, no ModelManager registration and no LocalModelProvider activity
ExtIdle ==
    /\ downloadStatus = "not_downloaded"
    /\ downloadProgress = 0
    /\ downloadError = ""
    /\ isCheckingStatus = FALSE
    /\ models = NoModels
    /\ probes = {}
    /\ notifyCount = 0
    /\ downloads = <<>>
    /\ dlEvents = 0
    /\ lastNotice = NoNotice
    /\ cancelAcks = {}
    /\ modelHandleRef = Undefined
    /\ isSettingUp = FALSE
    /\ seenIsSettingUp = FALSE
    /\ hasLocalModel = FALSE
    /\ file = "absent"
    /\ runs = <<>>
    /\ releaseThrew = FALSE
    /\ deletes = <<>>
    /\ registerCalls = 0
    /\ probeCalls = 0
    /\ observed = NoObservers
    /\ unsubscribes = <<>>

HookIdle ==
    /\ mounted = TRUE
    /\ config = NoConfig
    /\ creates = <<>>
    /\ releaseCalls = <<>>
    /\ nativeNext = HookHandle + 1

Init ==
    /\ reqs = <<>>
    /\ subs = {}
    /\ nextRequestIdRef = 0
    /\ evCount = 0
    /\ modelHandle \in {Undefined, HookHandle}
    /\ installed = {modelHandle} \ {Undefined}
    /\ HookIdle
    /\ ExtIdle

Next ==
    \/ \E h \in ManualHandles \cup {Undefined}, id \in RandomIds, sig \in Signals :
           GenerateStreamingText(h, id, sig)
    \/ \E sig \in Signals : HookGenerateStreamingResponse(sig)
    \/ \E sig \in Signals : HookGenerateResponse(sig)
    \/ \E r \in 1..MaxReq : Abort(r)
    \/ \E o \in 1..MaxReq, c \in Chunks : EmitPartial(o, c)
    \/ \E o \in 1..MaxReq, e \in EventErrors : EmitError(o, e)
    \/ \E r \in 1..MaxReq : NativeResolve(r)
    \/ \E r \in 1..MaxReq, e \in NativeErrors : NativeReject(r, e)

Spec == Init /\ [][Next]_vars

\* Generation without a ready session: the hook has not loaded a model, and
\* the application has or has not yet released the handles it created itself.
NotReadyInit ==
    /\ reqs = <<>>
    /\ subs = {}
    /\ nextRequestIdRef = 0
    /\ evCount = 0
    /\ modelHandle = Undefined
    /\ installed = {}
    /\ mounted = TRUE
    /\ config = NoConfig
    /\ creates = <<>>
    /\ releaseCalls \in {<<>>} \cup {<<h>> : h \in ManualHandles}
    /\ nativeNext = HookHandle + 1
    /\ ExtIdle

NotReadySpec == NotReadyInit /\ [][Next]_vars

----------------------------------------------------------------------------
(* The asset/file hook (_useLLMBase): the create effect and the release     *)
(* effect.  A state update, the re-render it causes and the effect cleanups *)
(* and effects of that render are one step.                                 *)

Configs == 1..MaxConfig

\* one run of the create effect that issued a native create call; active is the
\* effect closure's flag, wasActive its value when the call settled
NewCreate(c) ==
    [config |-> c, active |-> TRUE, status |-> "pending",
     handle |-> Undefined, wasActive |-> FALSE]

\* the release effect's cleanup, run when modelHandle changes or on unmount:
\* module.releaseModel(currentModelHandle) unless it is undefined
ReleaseCleanup(calls, current) ==
    IF current # Undefined THEN Append(calls, current) ELSE calls

\* the create effect's cleanup: active = false
CreateCleanup(cs) == [i \in DOMAIN cs |-> [cs[i] EXCEPT !.active = FALSE]]

\* a .then that installs the handle without looking at active
CreateThenAlwaysInstalls(c) == TRUE

\* .then of the create promise: if (active) setModelHandle(handle)
CreateThenInstalls(c) == c.active

\* .catch of the create promise: if (active) setModelHandle(undefined)
CreateCatchClears(c) == c.active

\* the handle the native createModel / createModelFromAsset call returns: one
\* no earlier call returned
NativeCreateModel == nativeNext

\* the props change to another configuration identity (or to none)
ChangeConfig(c) ==
    /\ mounted
    /\ c # config
    /\ c = NoConfig \/ Len(creates) < MaxCreates
    /\ config' = c
    /\ IF c = NoConfig
       THEN /\ creates' = CreateCleanup(creates)
            /\ modelHandle' = Undefined
            /\ releaseCalls' = ReleaseCleanup(releaseCalls, modelHandle)
       ELSE /\ creates' = Append(CreateCleanup(creates), NewCreate(c))
            /\ UNCHANGED <<modelHandle, releaseCalls>>
    /\ UNCHANGED <<mounted, installed, nativeNext>>
    /\ UNCHANGED <<genVars, extVars>>

\* the native create call of effect run i resolves with a fresh handle
CreateResolve(i) ==
    /\ i \in DOMAIN creates
    /\ creates[i].status = "pending"
    /\ LET h == NativeCreateModel
       IN  /\ nativeNext' = nativeNext + 1
           /\ creates' = [creates EXCEPT ![i].status = "resolved", ![i].handle = h,
                                         ![i].wasActive = creates[i].active]
           /\ IF CreateThenInstalls(creates[i])
              THEN /\ modelHandle' = h
                   /\ installed' = installed \cup {h}
                   /\ releaseCalls' = ReleaseCleanup(releaseCalls, modelHandle)
              ELSE /\ releaseCalls' = Append(releaseCalls, h)
                   /\ UNCHANGED <<modelHandle, installed>>
    /\ UNCHANGED <<mounted, config>>
    /\ UNCHANGED <<genVars, extVars>>

\* the native create call of effect run i rejects
CreateReject(i) ==
    /\ i \in DOMAIN creates
    /\ creates[i].status = "pending"
    /\ creates' = [creates EXCEPT ![i].status = "rejected",
                                  ![i].wasActive = creates[i].active]
    /\ IF CreateCatchClears(creates[i])
       THEN /\ modelHandle' = Undefined
            /\ releaseCalls' = ReleaseCleanup(releaseCalls, modelHandle)
       ELSE UNCHANGED <<modelHandle, releaseCalls>>
    /\ UNCHANGED <<mounted, config, installed, nativeNext>>
    /\ UNCHANGED <<genVars, extVars>>

\* the component is torn down: every effect's cleanup runs
Unmount ==
    /\ mounted
    /\ mounted' = FALSE
    /\ creates' = CreateCleanup(creates)
    /\ releaseCalls' = ReleaseCleanup(releaseCalls, modelHandle)
    /\ UNCHANGED <<config, modelHandle, installed, nativeNext>>
    /\ UNCHANGED <<genVars, extVars>>

\* the hook after its first render: the create effect has run once
BaseInit ==
    /\ reqs = <<>>
    /\ subs = {}
    /\ nextRequestIdRef = 0
    /\ evCount = 0
    /\ modelHandle = Undefined
    /\ installed = {}
    /\ mounted = TRUE
    /\ config \in Configs \cup {NoConfig}
    /\ creates = IF config = NoConfig THEN <<>> ELSE <<NewCreate(config)>>
    /\ releaseCalls = <<>>
    /\ nativeNext = 1
    /\ ExtIdle

BaseNext ==
    \/ \E c \in Configs \cup {NoConfig} : ChangeConfig(c)
    \/ \E i \in 1..MaxCreates : CreateResolve(i)
    \/ \E i \in 1..MaxCreates : CreateReject(i)
    \/ Unmount

BaseSpec == BaseInit /\ [][BaseNext]_vars

----------------------------------------------------------------------------
(* Downloads.  The ModelManager singleton and the downloadable hook         *)
(* (_useLLMDownloadable) both listen to the native module's downloadProgress*)
(* events; one published event reaches every registered listener in one     *)
(* step.  Progress values are whole numbers: 1 is "all bytes", a value      *)
(* above 1 is one the transport should never report.                        *)

MaxDownloads == 2
MaxDlEvents == 2
MaxTick == 2
MaxLoads == 2
MaxRegister == 2
MaxDeletes == 1

\* props.modelName of the hook instance
HookModel == "m1"
\* the names the application registers with the ModelManager
AppModels == {HookModel}
Urls == {"u1"}
\* the urls a later registerModel call may carry
OtherUrls == Urls \cup {"u2"}
Observers == {"o1"}
Ticks == 0..MaxTick
DlStatuses == {"downloading", "completed", "error", "cancelled"}
DlErrors == {"d1"}
NotRegistered == "is not registered"

\* a downloadProgress event; progress = Undefined and error = "" stand for
\* fields the event does not carry
DlEvent(name, status, progress, error) ==
    [modelName |-> name, status |-> status, progress |-> progress, error |-> error]

\* one downloadModel call: who made it, the state of the native call it issued
\* ("none" when it issued none) and what the caller got back
NewDownload(by, name, native, caller, error) ==
    [by |-> by, name |-> name, native |-> native, caller |-> caller,
     error |-> error, nativeError |-> "", overwrite |-> FALSE,
     nativeCalls |-> IF native = "none" THEN 0 ELSE 1]

\* a lookup that registers the name it is asked for
ModelsGetOrCreate(m, name) ==
    IF name \in DOMAIN m THEN m[name]
    ELSE [url |-> "u1", status |-> "not_downloaded", progress |-> Undefined,
          error |-> ""]

\* this.models.get(name)
ModelsGet(m, name) == IF name \in DOMAIN m THEN m[name] ELSE NoModel

\* this.models.set(name, model)
ModelsSet(m, name, model) ==
    [n \in DOMAIN m \cup {name} |-> IF n = name THEN model ELSE m[n]]

\* ModelManager.handleDownloadProgress
HandleDownloadProgress(m, ev) ==
    IF ModelsGet(m, ev.modelName) # NoModel
    THEN ModelsSet(m, ev.modelName,
             [ModelsGet(m, ev.modelName) EXCEPT
                 !.status = CASE ev.status = "completed" -> "downloaded"
                              [] ev.status = "error" -> "error"
                              [] ev.status = "downloading" -> "downloading"
                              [] OTHER -> "not_downloaded",
                 !.progress = IF ev.progress # Undefined THEN ev.progress ELSE @,
                 !.error = IF ev.error # "" THEN ev.error ELSE @])
    ELSE m

\* a handler that notifies the observers of every event
HandleDownloadProgressNotifiesAll(m, ev) == TRUE

\* whether handleDownloadProgress ran notifyListeners
HandleDownloadProgressNotifies(m, ev) == ModelsGet(m, ev.modelName) # NoModel

\* the downloadable hook's download state as one value
HookDl == [status |-> downloadStatus, progress |-> downloadProgress,
           error |-> downloadError]

\* the hook's downloadProgress listener
DownloadProgressListener(s, ev) ==
    IF ev.modelName # HookModel THEN s
    ELSE IF ev.status = "downloading" /\ ev.progress # Undefined
         THEN [s EXCEPT !.progress = ev.progress, !.status = "downloading"]
    ELSE IF ev.status = "completed"
         THEN [s EXCEPT !.progress = 1, !.status = "downloaded", !.error = ""]
    ELSE IF ev.status = "error"
         THEN [s EXCEPT !.status = "error",
                        !.error = IF ev.error # "" THEN ev.error
                                  ELSE "Unknown error occurred"]
    ELSE IF ev.status = "cancelled"
         THEN [s EXCEPT !.status = "not_downloaded", !.progress = 0]
    ELSE s

\* the hook's three download states take the values of s
SetHookDl(s) ==
    /\ downloadStatus' = s.status
    /\ downloadProgress' = s.progress
    /\ downloadError' = s.error

\* ModelManager.notifyListeners(): every registered observer is called with
\* this.models
NotifyListeners(o, m) == [l \in DOMAIN o |-> m]

\* a lookup that finds no name
ModelsHasNone(m, name) == FALSE

\* this.models.has(name)
ModelsHas(m, name) == name \in DOMAIN m

\* ModelManager.registerModel(name, url); the existence probe it starts for a
\* new name completes later
RegisterModel(name, url) ==
    /\ registerCalls < MaxRegister
    /\ registerCalls' = registerCalls + 1
    /\ IF ~ModelsHas(models, name)
       THEN /\ models' = ModelsSet(models, name,
                             [url |-> url, status |-> "not_downloaded",
                              progress |-> Undefined, error |-> ""])
            /\ probes' = probes \cup {name}
            /\ probeCalls' = probeCalls + 1
       ELSE UNCHANGED <<models, probes, probeCalls>>
    /\ UNCHANGED <<notifyCount, modelHandle, deletes, observed, unsubscribes>>
    /\ UNCHANGED <<genVars, hookVars, dlVars, xferVars, provVars>>

\* registerModel(name, url) called for a name that is not registered yet
RegisterNewModel(name, url) ==
    /\ ~ModelsHas(models, name)
    /\ RegisterModel(name, url)

\* ModelManager.checkModelStatus: isModelDownloaded(name) resolved
CheckModelStatus(name, isDownloaded) ==
    /\ name \in probes
    /\ probes' = probes \ {name}
    /\ LET m == [models EXCEPT ![name].status =
                    IF isDownloaded THEN "downloaded" ELSE "not_downloaded"]
       IN  /\ models' = m
           /\ observed' = NotifyListeners(observed, m)
    /\ notifyCount' = notifyCount + 1
    /\ UNCHANGED <<modelHandle, deletes, registerCalls, probeCalls, unsubscribes>>
    /\ UNCHANGED <<genVars, hookVars, dlVars, xferVars, provVars>>

\* ModelManager.checkModelStatus: isModelDownloaded(name) rejected, which is
\* only logged
CheckModelStatusFails(name) ==
    /\ name \in probes
    /\ probes' = probes \ {name}
    /\ UNCHANGED <<models, notifyCount, modelHandle>>
    /\ UNCHANGED <<genVars, hookVars, dlVars, xferVars, provVars, regVars>>

\* a catch block that leaves the record as it is
DownloadCatchKeeps(model) == model

\* the catch block of ModelManager.downloadModel: model.status = "error"
DownloadCatch(model) == [model EXCEPT !.status = "error"]

\* ModelManager.downloadModel(name, options), up to its await; overwrite is
\* options.overwrite, which is only handed on to the native call
DownloadModel(name, overwrite) ==
    /\ Len(downloads) < MaxDownloads
    /\ LET model == ModelsGet(models, name)
       IN  IF model = NoModel
           THEN /\ downloads' = Append(downloads,
                      [NewDownload("manager", name, "none", "thrown", NotRegistered)
                           EXCEPT !.overwrite = overwrite])
                /\ UNCHANGED <<models, notifyCount, observed>>
           ELSE LET m == ModelsSet(models, name,
                             [model EXCEPT !.status = "downloading", !.progress = 0])
                IN  /\ models' = m
                    /\ observed' = NotifyListeners(observed, m)
                    /\ notifyCount' = notifyCount + 1
                    /\ downloads' = Append(downloads,
                          [NewDownload("manager", name, "pending", "pending", "")
                               EXCEPT !.overwrite = overwrite])
    /\ UNCHANGED <<probes, dlEvents, lastNotice, cancelAcks, modelHandle>>
    /\ UNCHANGED <<deletes, registerCalls, probeCalls, unsubscribes>>
    /\ UNCHANGED <<genVars, hookVars, dlVars, provVars>>

\* the hook's downloadModel (downloadModelHandler), up to its await
DownloadModelHandler ==
    /\ mounted
    /\ Len(downloads) < MaxDownloads
    /\ downloadStatus' = "downloading"
    /\ downloadProgress' = 0
    /\ downloadError' = ""
    /\ downloads' = Append(downloads,
           NewDownload("hook", HookModel, "pending", "pending", ""))
    /\ UNCHANGED <<isCheckingStatus, dlEvents, lastNotice, cancelAcks, modelHandle>>
    /\ UNCHANGED <<genVars, hookVars, mgrVars, provVars, regVars>>

\* the native downloadModel call of download i resolves: the caller gets its
\* result
NativeDownloadResolve(i) ==
    /\ i \in DOMAIN downloads
    /\ downloads[i].native = "pending"
    /\ downloads' = [downloads EXCEPT ![i].native = "resolved",
                                      ![i].caller = "returned"]
    /\ UNCHANGED <<dlEvents, lastNotice, cancelAcks, modelHandle>>
    /\ UNCHANGED <<genVars, hookVars, dlVars, mgrVars, provVars, regVars>>

\* the native downloadModel call of download i rejects with e: the catch block
\* of the caller runs and rethrows
NativeDownloadReject(i, e) ==
    /\ i \in DOMAIN downloads
    /\ downloads[i].native = "pending"
    /\ downloads' = [downloads EXCEPT ![i].native = "rejected",
                                      ![i].nativeError = e,
                                      ![i].caller = "thrown",
                                      ![i].error = e]
    /\ IF downloads[i].by = "manager"
       THEN LET m == ModelsSet(models, downloads[i].name,
                         DownloadCatch(ModelsGet(models, downloads[i].name)))
            IN  /\ models' = m
                /\ observed' = NotifyListeners(observed, m)
                /\ notifyCount' = notifyCount + 1
                /\ UNCHANGED dlVars
       ELSE /\ IF mounted
               THEN /\ downloadStatus' = "error"
                    /\ downloadError' = e
                    /\ UNCHANGED <<downloadProgress, isCheckingStatus>>
               ELSE UNCHANGED dlVars
            /\ UNCHANGED <<models, notifyCount, observed>>
    /\ UNCHANGED <<probes, dlEvents, lastNotice, cancelAcks, modelHandle>>
    /\ UNCHANGED <<deletes, registerCalls, probeCalls, unsubscribes>>
    /\ UNCHANGED <<genVars, hookVars, provVars>>

\* ModelManager.cancelDownload(name), acknowledged by the native side
CancelDownload(name) ==
    /\ name \notin cancelAcks
    /\ \E i \in DOMAIN downloads :
           downloads[i].name = name /\ downloads[i].native = "pending"
    /\ cancelAcks' = cancelAcks \cup {name}
    /\ UNCHANGED <<downloads, dlEvents, lastNotice, modelHandle>>
    /\ UNCHANGED <<genVars, hookVars, dlVars, mgrVars, provVars, regVars>>

\* the native side publishes a downloadProgress event: handleDownloadProgress
\* and, while the hook is mounted, its listener run
DownloadProgress(name, status, progress, error) ==
    /\ dlEvents < MaxDlEvents
    /\ status = "cancelled" => name \in cancelAcks
    /\ error # "" => status = "error"
    /\ dlEvents' = dlEvents + 1
    /\ lastNotice' = [modelName |-> name, status |-> status]
    /\ LET ev == DlEvent(name, status, progress, error)
       IN  /\ models' = HandleDownloadProgress(models, ev)
           /\ notifyCount' = IF HandleDownloadProgressNotifies(models, ev)
                             THEN notifyCount + 1 ELSE notifyCount
           /\ observed' = IF HandleDownloadProgressNotifies(models, ev)
                          THEN NotifyListeners(observed,
                                   HandleDownloadProgress(models, ev))
                          ELSE observed
           /\ IF mounted
              THEN SetHookDl(DownloadProgressListener(HookDl, ev))
              ELSE UNCHANGED <<downloadStatus, downloadProgress, downloadError>>
    /\ UNCHANGED <<probes, isCheckingStatus, downloads, cancelAcks, modelHandle>>
    /\ UNCHANGED <<deletes, registerCalls, probeCalls, unsubscribes>>
    /\ UNCHANGED <<genVars, hookVars, provVars>>

\* the hook's checkModelStatus effect: isModelDownloaded(modelName) resolved
HookCheckModelStatus(isDownloaded) ==
    /\ mounted
    /\ isCheckingStatus
    /\ isCheckingStatus' = FALSE
    /\ downloadStatus' = IF isDownloaded THEN "downloaded" ELSE "not_downloaded"
    /\ downloadProgress' = IF isDownloaded THEN 1 ELSE 0
    /\ UNCHANGED <<downloadError, modelHandle>>
    /\ UNCHANGED <<genVars, hookVars, mgrVars, xferVars, provVars, regVars>>

\* the hook's checkModelStatus effect: isModelDownloaded(modelName) rejected
HookCheckModelStatusFails(e) ==
    /\ mounted
    /\ isCheckingStatus
    /\ isCheckingStatus' = FALSE
    /\ downloadStatus' = "error"
    /\ downloadError' = e
    /\ UNCHANGED <<downloadProgress, modelHandle>>
    /\ UNCHANGED <<genVars, hookVars, mgrVars, xferVars, provVars, regVars>>

\* a loadModel that tests the handle only
LoadModelCheckSkipsStatus(handle, status) ==
    IF handle # Undefined THEN "returned" ELSE "pending"

\* the two checks loadModelHandler makes before its native call: with a handle
\* it returns, with a model that is not downloaded it throws, else it goes on
\* to createModelFromDownloaded
LoadModelCheck(handle, status) ==
    IF handle # Undefined THEN "returned"
    ELSE IF status # "downloaded" THEN "thrown"
    ELSE "pending"

\* the hook's loadModel (loadModelHandler), up to its await: the call is
\* recorded with what its checks made of it, and only a "pending" record
\* stands for a createModelFromDownloaded call
LoadModelHandler ==
    /\ mounted
    /\ Len(creates) < MaxLoads
    /\ creates' = Append(creates,
           [NewCreate(NoConfig) EXCEPT
                !.status = LoadModelCheck(modelHandle, downloadStatus)])
    /\ UNCHANGED <<modelHandle, mounted, config, releaseCalls, installed, nativeNext>>
    /\ UNCHANGED <<genVars, extVars>>

\* createModelFromDownloaded of load i resolves: setModelHandle(handle), which
\* React drops once the component is unmounted; the release effect's cleanup
\* runs for the handle it replaces
LoadResolve(i) ==
    /\ i \in DOMAIN creates
    /\ creates[i].status = "pending"
    /\ LET h == NativeCreateModel
       IN  /\ nativeNext' = nativeNext + 1
           /\ creates' = [creates EXCEPT ![i].status = "resolved", ![i].handle = h,
                                         ![i].wasActive = mounted]
           /\ IF mounted
              THEN /\ modelHandle' = h
                   /\ installed' = installed \cup {h}
                   /\ releaseCalls' = ReleaseCleanup(releaseCalls, modelHandle)
              ELSE UNCHANGED <<modelHandle, installed, releaseCalls>>
    /\ UNCHANGED <<mounted, config>>
    /\ UNCHANGED <<genVars, extVars>>

\* createModelFromDownloaded of load i rejects: setModelHandle(undefined)
LoadReject(i) ==
    /\ i \in DOMAIN creates
    /\ creates[i].status = "pending"
    /\ creates' = [creates EXCEPT ![i].status = "rejected",
                                  ![i].wasActive = mounted]
    /\ IF mounted
       THEN /\ modelHandle' = Undefined
            /\ releaseCalls' = ReleaseCleanup(releaseCalls, modelHandle)
       ELSE UNCHANGED <<modelHandle, releaseCalls>>
    /\ UNCHANGED <<mounted, config, installed, nativeNext>>
    /\ UNCHANGED <<genVars, extVars>>

\* the downloadable hook's component is torn down: the listener is removed and
\* the release effect's cleanup runs
DlUnmount ==
    /\ mounted
    /\ mounted' = FALSE
    /\ releaseCalls' = ReleaseCleanup(releaseCalls, modelHandle)
    /\ UNCHANGED <<config, creates, modelHandle, installed, nativeNext>>
    /\ UNCHANGED <<genVars, extVars>>

\* a mounted downloadable hook after its first render (existence probe
\* pending), a ModelManager with nothing registered, no download started
DlInit ==
    /\ reqs = <<>>
    /\ subs = {}
    /\ nextRequestIdRef = 0
    /\ evCount = 0
    /\ modelHandle = Undefined
    /\ installed = {}
    /\ mounted = TRUE
    /\ config = NoConfig
    /\ creates = <<>>
    /\ releaseCalls = <<>>
    /\ nativeNext = 1
    /\ downloadStatus = "not_downloaded"
    /\ downloadProgress = 0
    /\ downloadError = ""
    /\ isCheckingStatus = TRUE
    /\ models = NoModels
    /\ probes = {}
    /\ notifyCount = 0
    /\ downloads = <<>>
    /\ dlEvents = 0
    /\ lastNotice = NoNotice
    /\ cancelAcks = {}
    /\ modelHandleRef = Undefined
    /\ isSettingUp = FALSE
    /\ seenIsSettingUp = FALSE
    /\ hasLocalModel = FALSE
    /\ file = "absent"
    /\ runs = <<>>
    /\ releaseThrew = FALSE
    /\ deletes = <<>>
    /\ registerCalls = 0
    /\ probeCalls = 0
    /\ observed = NoObservers
    /\ unsubscribes = <<>>

\* the steps of the hook's download state and of the transport
TransferNext ==
    \/ DownloadModelHandler
    \/ \E i \in 1..MaxDownloads : NativeDownloadResolve(i)
    \/ \E i \in 1..MaxDownloads, e \in DlErrors : NativeDownloadReject(i, e)
    \/ \E name \in ModelNames, status \in DlStatuses,
          progress \in Ticks \cup {Undefined}, error \in DlErrors \cup {""} :
           DownloadProgress(name, status, progress, error)
    \/ \E b \in BOOLEAN : HookCheckModelStatus(b)
    \/ \E e \in DlErrors : HookCheckModelStatusFails(e)

\* the downloadable hook: download state and model-handle lifecycle
DlNext ==
    \/ TransferNext
    \/ LoadModelHandler
    \/ \E i \in 1..MaxLoads : LoadResolve(i)
    \/ \E i \in 1..MaxLoads : LoadReject(i)
    \/ DlUnmount

DlSpec == DlInit /\ [][DlNext]_vars

\* the ModelManager next to a mounted downloadable hook
MgrNext ==
    \/ TransferNext
    \/ \E name \in AppModels, url \in Urls : RegisterNewModel(name, url)
    \/ \E name \in ModelNames, b \in BOOLEAN : CheckModelStatus(name, b)
    \/ \E name \in ModelNames : CheckModelStatusFails(name)
    \/ \E name \in ModelNames : DownloadModel(name, FALSE)
    \/ \E name \in ModelNames : CancelDownload(name)

MgrSpec == DlInit /\ [][MgrNext]_vars

\* The ModelManager on its own: registration (also of names already
\* registered), observers, downloads with and without overwrite, deletion.

\* one deleteModel call and the state of its native deleteDownloadedModel call
NewDelete(name) ==
    [name |-> name, native |-> "pending", result |-> FALSE, caller |-> "pending"]

\* a deletion that resets the record whatever the native call reported
DeleteResetsAlways(result) == TRUE

\* deleteModel: if (result)
DeleteResets(result) == result

\* ModelManager.deleteModel(name), up to its await
DeleteModel(name) ==
    /\ Len(deletes) < MaxDeletes
    /\ deletes' = Append(deletes, NewDelete(name))
    /\ UNCHANGED <<registerCalls, probeCalls, unsubscribes, observed, modelHandle>>
    /\ UNCHANGED <<genVars, hookVars, dlVars, mgrVars, xferVars, provVars>>

\* deleteDownloadedModel of delete i resolves with result
DeleteResolve(i, result) ==
    /\ i \in DOMAIN deletes
    /\ deletes[i].native = "pending"
    /\ deletes' = [deletes EXCEPT ![i].native = "resolved", ![i].result = result,
                                  ![i].caller = "returned"]
    /\ LET model == ModelsGet(models, deletes[i].name)
       IN  IF DeleteResets(result) /\ model # NoModel
           THEN LET m == ModelsSet(models, deletes[i].name,
                             [model EXCEPT !.status = "not_downloaded",
                                           !.progress = Undefined])
                IN  /\ models' = m
                    /\ observed' = NotifyListeners(observed, m)
                    /\ notifyCount' = notifyCount + 1
           ELSE UNCHANGED <<models, observed, notifyCount>>
    /\ UNCHANGED <<probes, registerCalls, probeCalls, unsubscribes, modelHandle>>
    /\ UNCHANGED <<genVars, hookVars, dlVars, xferVars, provVars>>

\* deleteDownloadedModel of delete i rejects: deleteModel has no catch, its
\* caller gets the rejection
DeleteReject(i) ==
    /\ i \in DOMAIN deletes
    /\ deletes[i].native = "pending"
    /\ deletes' = [deletes EXCEPT ![i].native = "rejected", ![i].caller = "thrown"]
    /\ UNCHANGED <<registerCalls, probeCalls, unsubscribes, observed, modelHandle>>
    /\ UNCHANGED <<genVars, hookVars, dlVars, mgrVars, xferVars, provVars>>

\* ModelManager.addListener(callback): the observer has been given no map yet
AddListener(l) ==
    /\ l \notin DOMAIN observed
    /\ observed' = [x \in DOMAIN observed \cup {l} |->
                        IF x = l THEN NoModels ELSE observed[x]]
    /\ UNCHANGED <<deletes, registerCalls, probeCalls, unsubscribes, modelHandle>>
    /\ UNCHANGED <<genVars, hookVars, dlVars, mgrVars, xferVars, provVars>>

\* the unsubscribe function addListener returned
RemoveListener(l) ==
    /\ l \in DOMAIN observed
    /\ observed' = [x \in DOMAIN observed \ {l} |-> observed[x]]
    /\ UNCHANGED <<deletes, registerCalls, probeCalls, unsubscribes, modelHandle>>
    /\ UNCHANGED <<genVars, hookVars, dlVars, mgrVars, xferVars, provVars>>

\* a ModelManager with nothing registered and no hook instance
RegistryInit ==
    /\ reqs = <<>>
    /\ subs = {}
    /\ nextRequestIdRef = 0
    /\ evCount = 0
    /\ modelHandle = Undefined
    /\ installed = {}
    /\ mounted = FALSE
    /\ config = NoConfig
    /\ creates = <<>>
    /\ releaseCalls = <<>>
    /\ nativeNext = 1
    /\ ExtIdle

\* the application's calls and the native side's answers; the events are those
\* of a transfer nobody cancels, with no tick or with the last one
RegistryNext ==
    \/ \E name \in AppModels, url \in OtherUrls : RegisterModel(name, url)
    \/ \E name \in ModelNames, b \in BOOLEAN : CheckModelStatus(name, b)
    \/ \E name \in ModelNames : CheckModelStatusFails(name)
    \/ \E name \in AppModels, overwrite \in BOOLEAN : DownloadModel(name, overwrite)
    \/ \E i \in 1..MaxDownloads, e \in DlErrors : NativeDownloadReject(i, e)
    \/ \E name \in AppModels, status \in DlStatuses \ {"cancelled"},
          progress \in {Undefined, 1} :
           DownloadProgress(name, status, progress, "")
    \/ \E name \in AppModels : DeleteModel(name)
    \/ \E i \in 1..MaxDeletes, result \in BOOLEAN : DeleteResolve(i, result)
    \/ \E i \in 1..MaxDeletes : DeleteReject(i)
    \/ \E l \in Observers : AddListener(l)
    \/ \E l \in Observers : RemoveListener(l)

RegistrySpec == RegistryInit /\ [][RegistryNext]_vars

\* The routing of downloadProgress events: a ModelManager with up to two
\* registered names and an observer, next to the mounted hook
EventNext ==
    \/ \E name \in ModelNames, url \in Urls : RegisterNewModel(name, url)
    \/ \E name \in ModelNames, b \in BOOLEAN : CheckModelStatus(name, b)
    \/ \E name \in ModelNames, status \in DlStatuses,
          progress \in Ticks \cup {Undefined}, error \in DlErrors \cup {""} :
           DownloadProgress(name, status, progress, error)
    \/ \E b \in BOOLEAN : HookCheckModelStatus(b)
    \/ \E l \in Observers : AddListener(l)

EventSpec == DlInit /\ [][EventNext]_vars

\* Observers that keep the function addListener returned and call it when,
\* and as often as, they like.

MaxSubscriptions == 2
MaxUnsubscribe == 2

\* the callbacks the application registers
Callbacks == Observers \cup {"o2"}

\* this.listeners.push(callback)
ListenersPush(o, l) ==
    [x \in DOMAIN o \cup {l} |-> IF x \in DOMAIN o THEN o[x] ELSE NoModels]

\* this.listeners.filter((listener) => listener !== callback)
ListenersFilter(o, l) == [x \in DOMAIN o \ {l} |-> o[x]]

\* ModelManager.addListener(callback) by an observer that is not subscribed;
\* the caller keeps the unsubscribe function
Subscribe(l) ==
    /\ Len(unsubscribes) < MaxSubscriptions
    /\ l \notin DOMAIN observed
    /\ observed' = ListenersPush(observed, l)
    /\ unsubscribes' = Append(unsubscribes, [callback |-> l, calls |-> 0])
    /\ UNCHANGED <<deletes, registerCalls, probeCalls, modelHandle>>
    /\ UNCHANGED <<genVars, hookVars, dlVars, mgrVars, xferVars, provVars>>

\* a call of the i-th unsubscribe function
Unsubscribe(i) ==
    /\ i \in DOMAIN unsubscribes
    /\ unsubscribes[i].calls < MaxUnsubscribe
    /\ observed' = ListenersFilter(observed, unsubscribes[i].callback)
    /\ unsubscribes' = [unsubscribes EXCEPT ![i].calls = @ + 1]
    /\ UNCHANGED <<deletes, registerCalls, probeCalls, modelHandle>>
    /\ UNCHANGED <<genVars, hookVars, dlVars, mgrVars, xferVars, provVars>>

ListenerNext ==
    \/ \E name \in AppModels, url \in Urls : RegisterModel(name, url)
    \/ \E name \in AppModels, b \in BOOLEAN : CheckModelStatus(name, b)
    \/ \E name \in AppModels, status \in DlStatuses \ {"cancelled"},
          progress \in {Undefined, 1} :
           DownloadProgress(name, status, progress, "")
    \/ \E l \in Callbacks : Subscribe(l)
    \/ \E i \in 1..MaxSubscriptions : Unsubscribe(i)

ListenerSpec == RegistryInit /\ [][ListenerNext]_vars

----------------------------------------------------------------------------
(* LocalModelProvider (example app) and the model file it manages through   *)
(* localModelManager.ts.  setupModel and clearModelCache are asynchronous:  *)
(* a run is at the await its pc names, and the file system settles each     *)
(* call with success or failure.                                            *)

MaxRuns == 3

FileStates == {"absent", "partial", "complete"}

\* what no step of the provider touches
provFrame == <<genVars, mgrVars, xferVars, regVars, config, creates, installed,
               isCheckingStatus>>

\* what no step of a run touches: the rest of the program, and the closures
\* of the last render
provRest == <<provFrame, seenIsSettingUp>>

\* one run of inspectModelFile, setupModel or clearModelCache; released is the
\* handle its releaseModelHandle call released, handle the one its createModel
\* call returned
NewRun(op, pc) ==
    [op |-> op, pc |-> pc, released |-> Undefined, releaseOk |-> TRUE,
     handle |-> Undefined, outcome |-> ""]

\* a state setter: React drops the update once the component is unmounted
SetState(old, new) == IF mounted THEN new ELSE old

\* info.exists of FileSystem.getInfoAsync(path)
Exists == file # "absent"

\* Math.min(1, Math.max(0, progress))
Clamp(p) == IF p > 1 THEN 1 ELSE IF p < 0 THEN 0 ELSE p

\* a release that leaves the handle in the ref
RefAfterReleaseKept(ref) == ref

\* releaseModelHandle: modelHandleRef.current = null
RefAfterRelease(ref) == Undefined

\* releaseModelHandle: ExpoLlmMediapipe.releaseModel(handle) when the ref
\* holds a handle
ReleaseModelHandleCalls(calls, ref) ==
    IF ref # Undefined THEN Append(calls, ref) ELSE calls

\* releaseModelHandle wraps its await in try / catch
ReleaseCatches == TRUE

\* releaseModelHandle(), up to its await
ReleaseModelHandle ==
    /\ releaseCalls' = ReleaseModelHandleCalls(releaseCalls, modelHandleRef)
    /\ modelHandleRef' = IF modelHandleRef # Undefined
                         THEN RefAfterRelease(modelHandleRef) ELSE modelHandleRef
    /\ modelHandle' = IF modelHandleRef # Undefined
                      THEN SetState(modelHandle, Undefined) ELSE modelHandle

\* the catch and finally blocks of setupModel
SetupCatch(r) ==
    /\ runs' = [runs EXCEPT ![r].pc = "done", ![r].outcome = "error"]
    /\ downloadStatus' = SetState(downloadStatus, "error")
    /\ downloadError' = SetState(downloadError, "Unable to prepare model")
    /\ isSettingUp' = SetState(isSettingUp, FALSE)

\* ensureModelFile returned the path: setupModel goes on to release the handle
\* it holds
AfterEnsure(r) ==
    /\ runs' = [runs EXCEPT ![r].pc = "release", ![r].released = modelHandleRef]
    /\ downloadStatus' = SetState(downloadStatus, "ready")
    /\ hasLocalModel' = SetState(hasLocalModel, TRUE)
    /\ ReleaseModelHandle

\* removeModelFile returned: ensureModelFile rethrows the download error
\* (setupModel), or clearModelCache reports the file as removed
AfterRemove(r) ==
    IF runs[r].op = "setup"
    THEN /\ SetupCatch(r)
         /\ UNCHANGED hasLocalModel
    ELSE /\ runs' = [runs EXCEPT ![r].pc = "done", ![r].outcome = "removed"]
         /\ hasLocalModel' = SetState(hasLocalModel, FALSE)
         /\ UNCHANGED <<downloadStatus, downloadError, isSettingUp>>

\* the mount effect's inspectModelFile: getModelFileInfo() answered
InspectModelFile(r, ok) ==
    /\ r \in DOMAIN runs
    /\ runs[r].op = "inspect" /\ runs[r].pc = "info"
    /\ runs' = [runs EXCEPT ![r].pc = "done"]
    /\ IF ok /\ Exists
       THEN /\ hasLocalModel' = SetState(hasLocalModel, TRUE)
            /\ downloadStatus' = SetState(downloadStatus, "ready")
       ELSE UNCHANGED <<hasLocalModel, downloadStatus>>
    /\ UNCHANGED <<downloadProgress, downloadError, isSettingUp, file, releaseThrew,
                   modelHandleRef, modelHandle, mounted, releaseCalls, nativeNext>>
    /\ UNCHANGED provRest

\* if (isSettingUp) return, in setupModel and clearModelCache: isSettingUp is
\* the value the callback closed over when the provider last rendered
SettingUp(seen) == seen

\* the provider re-renders after setIsSettingUp: setupModel and
\* clearModelCache are made anew (isSettingUp is one of their dependencies)
ProviderRender ==
    /\ mounted
    /\ seenIsSettingUp # isSettingUp
    /\ seenIsSettingUp' = isSettingUp
    /\ UNCHANGED <<downloadStatus, downloadProgress, downloadError, isSettingUp,
                   hasLocalModel, file, runs, releaseThrew, modelHandleRef,
                   modelHandle, mounted, releaseCalls, nativeNext>>
    /\ UNCHANGED provFrame

\* setupModel(), up to its first await
SetupModel ==
    /\ mounted
    /\ ~SettingUp(seenIsSettingUp)
    /\ Len(runs) < MaxRuns
    /\ isSettingUp' = TRUE
    /\ downloadStatus' = "downloading"
    /\ downloadProgress' = 0
    /\ downloadError' = ""
    /\ runs' = Append(runs, NewRun("setup", "info"))
    /\ UNCHANGED <<hasLocalModel, file, releaseThrew, modelHandleRef, modelHandle,
                   mounted, releaseCalls, nativeNext>>
    /\ UNCHANGED provRest

\* setupModel: getModelFileInfo() answered (it decides only which token is
\* sent); ensureModelFile is called
GetModelFileInfo(r) ==
    /\ r \in DOMAIN runs
    /\ runs[r].op = "setup" /\ runs[r].pc = "info"
    /\ runs' = [runs EXCEPT ![r].pc = "ensureInfo"]
    /\ UNCHANGED <<downloadStatus, downloadProgress, downloadError, isSettingUp,
                   hasLocalModel, file, releaseThrew, modelHandleRef, modelHandle,
                   mounted, releaseCalls, nativeNext>>
    /\ UNCHANGED provRest

\* ensureModelFile: FileSystem.getInfoAsync(path) settled
EnsureModelFile(r, ok) ==
    /\ r \in DOMAIN runs
    /\ runs[r].pc = "ensureInfo"
    /\ IF ~ok
       THEN /\ SetupCatch(r)
            /\ UNCHANGED <<downloadProgress, hasLocalModel, modelHandleRef,
                           modelHandle, releaseCalls>>
       ELSE IF Exists
       THEN /\ downloadProgress' = SetState(downloadProgress, 1)
            /\ AfterEnsure(r)
            /\ UNCHANGED <<downloadError, isSettingUp>>
       ELSE /\ runs' = [runs EXCEPT ![r].pc = "download"]
            /\ UNCHANGED <<downloadStatus, downloadProgress, downloadError,
                           isSettingUp, hasLocalModel, modelHandleRef, modelHandle,
                           releaseCalls>>
    /\ UNCHANGED <<file, releaseThrew, mounted, nativeNext>>
    /\ UNCHANGED provRest

\* downloadWithProgress: the transport wrote bytes and reported p
DownloadTick(r, p) ==
    /\ r \in DOMAIN runs
    /\ runs[r].pc = "download"
    /\ file' = IF p > 0 THEN "partial" ELSE file
    /\ downloadProgress' = SetState(downloadProgress, Clamp(p))
    /\ UNCHANGED <<runs, downloadStatus, downloadError, isSettingUp, hasLocalModel,
                   releaseThrew, modelHandleRef, modelHandle, mounted, releaseCalls,
                   nativeNext>>
    /\ UNCHANGED provRest

\* downloadWithProgress: resumable.downloadAsync() resolved
DownloadResolve(r) ==
    /\ r \in DOMAIN runs
    /\ runs[r].pc = "download"
    /\ file' = "complete"
    /\ downloadProgress' = SetState(downloadProgress, 1)
    /\ AfterEnsure(r)
    /\ UNCHANGED <<downloadError, isSettingUp, releaseThrew, mounted, nativeNext>>
    /\ UNCHANGED provRest

\* downloadWithProgress: resumable.downloadAsync() rejected; the catch block of
\* ensureModelFile calls removeModelFile
DownloadReject(r) ==
    /\ r \in DOMAIN runs
    /\ runs[r].pc = "download"
    /\ runs' = [runs EXCEPT ![r].pc = "removeInfo"]
    /\ UNCHANGED <<downloadStatus, downloadProgress, downloadError, isSettingUp,
                   hasLocalModel, file, releaseThrew, modelHandleRef, modelHandle,
                   mounted, releaseCalls, nativeNext>>
    /\ UNCHANGED provRest

\* removeModelFile: FileSystem.getInfoAsync(path) settled
RemoveModelFile(r, ok) ==
    /\ r \in DOMAIN runs
    /\ runs[r].pc = "removeInfo"
    /\ IF ok /\ Exists
       THEN /\ runs' = [runs EXCEPT ![r].pc = "delete"]
            /\ UNCHANGED <<downloadStatus, downloadError, isSettingUp, hasLocalModel>>
       ELSE AfterRemove(r)
    /\ UNCHANGED <<downloadProgress, file, releaseThrew, modelHandleRef, modelHandle,
                   mounted, releaseCalls, nativeNext>>
    /\ UNCHANGED provRest

\* removeModelFile: FileSystem.deleteAsync(path, { idempotent: true }) settled;
\* a failure is only logged
DeleteAsync(r, ok) ==
    /\ r \in DOMAIN runs
    /\ runs[r].pc = "delete"
    /\ file' = IF ok THEN "absent" ELSE file
    /\ AfterRemove(r)
    /\ UNCHANGED <<downloadProgress, releaseThrew, modelHandleRef, modelHandle,
                   mounted, releaseCalls, nativeNext>>
    /\ UNCHANGED provRest

\* the await of releaseModelHandle() ends, the native releaseModel call (if one
\* was issued) having resolved or rejected: setupModel calls createModel,
\* clearModelCache calls removeModelFile
ReleaseSettled(r, ok) ==
    /\ r \in DOMAIN runs
    /\ runs[r].pc = "release"
    /\ ok \/ runs[r].released # Undefined
    /\ IF ~ok /\ ~ReleaseCatches
       THEN /\ releaseThrew' = TRUE
            /\ IF runs[r].op = "setup"
               THEN SetupCatch(r)
               ELSE /\ runs' = [runs EXCEPT ![r].pc = "done", ![r].outcome = "error",
                                            ![r].releaseOk = ok]
                    /\ UNCHANGED <<downloadStatus, downloadError, isSettingUp>>
       ELSE /\ runs' = [runs EXCEPT
                           ![r].pc = IF runs[r].op = "setup" THEN "create"
                                     ELSE "removeInfo",
                           ![r].releaseOk = ok]
            /\ UNCHANGED <<releaseThrew, downloadStatus, downloadError, isSettingUp>>
    /\ UNCHANGED <<downloadProgress, hasLocalModel, file, modelHandleRef, modelHandle,
                   mounted, releaseCalls, nativeNext>>
    /\ UNCHANGED provRest

\* setupModel: ExpoLlmMediapipe.createModel resolved; updateModelHandle(handle)
\* and the finally block
SetupCreateResolve(r) ==
    /\ r \in DOMAIN runs
    /\ runs[r].pc = "create"
    /\ LET h == NativeCreateModel
       IN  /\ nativeNext' = nativeNext + 1
           /\ runs' = [runs EXCEPT ![r].pc = "done", ![r].outcome = "ready",
                                   ![r].handle = h]
           /\ modelHandleRef' = h
           /\ modelHandle' = SetState(modelHandle, h)
    /\ isSettingUp' = SetState(isSettingUp, FALSE)
    /\ UNCHANGED <<downloadStatus, downloadProgress, downloadError, hasLocalModel,
                   file, releaseThrew, mounted, releaseCalls>>
    /\ UNCHANGED provRest

\* setupModel: ExpoLlmMediapipe.createModel rejected
SetupCreateReject(r) ==
    /\ r \in DOMAIN runs
    /\ runs[r].pc = "create"
    /\ SetupCatch(r)
    /\ UNCHANGED <<downloadProgress, hasLocalModel, file, releaseThrew,
                   modelHandleRef, modelHandle, mounted, releaseCalls, nativeNext>>
    /\ UNCHANGED provRest

\* clearModelCache(), up to its first await
ClearModelCache ==
    /\ mounted
    /\ ~SettingUp(seenIsSettingUp)
    /\ Len(runs) < MaxRuns
    /\ downloadError' = ""
    /\ downloadProgress' = 0
    /\ downloadStatus' = "idle"
    /\ runs' = Append(runs, [NewRun("clear", "release") EXCEPT
                                !.released = modelHandleRef])
    /\ ReleaseModelHandle
    /\ UNCHANGED <<isSettingUp, hasLocalModel, file, releaseThrew, mounted, nativeNext>>
    /\ UNCHANGED provRest

\* the provider is torn down: the cleanup calls releaseModelHandle() and the
\* mount effect's isActive flag is cleared
ProviderUnmount ==
    /\ mounted
    /\ mounted' = FALSE
    /\ releaseCalls' = ReleaseModelHandleCalls(releaseCalls, modelHandleRef)
    /\ modelHandleRef' = IF modelHandleRef # Undefined
                         THEN RefAfterRelease(modelHandleRef) ELSE modelHandleRef
    /\ UNCHANGED <<modelHandle, runs, downloadStatus, downloadProgress, downloadError,
                   isSettingUp, hasLocalModel, file, releaseThrew, nativeNext>>
    /\ UNCHANGED provRest

\* the provider after its first render: inspectModelFile is under way; the
\* model file is there from an earlier session or not
ProviderInit ==
    /\ reqs = <<>>
    /\ subs = {}
    /\ nextRequestIdRef = 0
    /\ evCount = 0
    /\ modelHandle = Undefined
    /\ installed = {}
    /\ mounted = TRUE
    /\ config = NoConfig
    /\ creates = <<>>
    /\ releaseCalls = <<>>
    /\ nativeNext = 1
    /\ downloadStatus = "idle"
    /\ downloadProgress = 0
    /\ downloadError = ""
    /\ isCheckingStatus = FALSE
    /\ models = NoModels
    /\ probes = {}
    /\ notifyCount = 0
    /\ downloads = <<>>
    /\ dlEvents = 0
    /\ lastNotice = NoNotice
    /\ cancelAcks = {}
    /\ modelHandleRef = Undefined
    /\ isSettingUp = FALSE
    /\ seenIsSettingUp = FALSE
    /\ hasLocalModel = FALSE
    /\ file \in {"absent", "complete"}
    /\ runs = <<NewRun("inspect", "info")>>
    /\ releaseThrew = FALSE
    /\ deletes = <<>>
    /\ registerCalls = 0
    /\ probeCalls = 0
    /\ observed = NoObservers
    /\ unsubscribes = <<>>

ProviderNext ==
    \/ \E r \in 1..MaxRuns, ok \in BOOLEAN : InspectModelFile(r, ok)
    \/ SetupModel
    \/ \E r \in 1..MaxRuns : GetModelFileInfo(r)
    \/ \E r \in 1..MaxRuns, ok \in BOOLEAN : EnsureModelFile(r, ok)
    \/ \E r \in 1..MaxRuns, p \in Ticks : DownloadTick(r, p)
    \/ \E r \in 1..MaxRuns : DownloadResolve(r)
    \/ \E r \in 1..MaxRuns : DownloadReject(r)
    \/ \E r \in 1..MaxRuns, ok \in BOOLEAN : RemoveModelFile(r, ok)
    \/ \E r \in 1..MaxRuns, ok \in BOOLEAN : DeleteAsync(r, ok)
    \/ \E r \in 1..MaxRuns, ok \in BOOLEAN : ReleaseSettled(r, ok)
    \/ \E r \in 1..MaxRuns : SetupCreateResolve(r)
    \/ \E r \in 1..MaxRuns : SetupCreateReject(r)
    \/ ClearModelCache
    \/ ProviderRender
    \/ ProviderUnmount

ProviderSpec == ProviderInit /\ [][ProviderNext]_vars

----------------------------------------------------------------------------
(* ChatExampleScreen.sendMessage (example app): the assistant message it     *)
(* shows for a generateStreamingText request.  Its callbacks and the code    *)
(* after its await change nothing but the message, so the message is a       *)
(* function of the request's record.                                         *)

\* chunks made of whitespace only
Whitespace == {" "}
\* the chunks the native side emits for the chat screen
ChatChunks == Whitespace \cup {"He"}
\* fallback = 'No response generated.'
NoResponse == "No response generated."

RECURSIVE TrimStart(_)
TrimStart(text) ==
    IF text = <<>> THEN <<>>
    ELSE IF Head(text) \in Whitespace THEN TrimStart(Tail(text)) ELSE text

RECURSIVE TrimEnd(_)
TrimEnd(text) ==
    IF text = <<>> THEN <<>>
    ELSE IF text[Len(text)] \in Whitespace
         THEN TrimEnd(SubSeq(text, 1, Len(text) - 1)) ELSE text

\* String.prototype.trim on a text given as its chunks
Trim(text) == TrimEnd(TrimStart(text))

\* accumulated += chunk in the onPartial callback
Accumulated(req) == [i \in 1..Len(req.partialCalls) |-> req.partialCalls[i].arg]

\* error.name of the Error a rejection of generateStreamingText carries:
\* reject(new Error("Aborted")) and the native rejections make plain Errors
ErrorName(reason) == "Error"

\* the content of the assistant message: '...' or the accumulated text while
\* the request is pending, the fallback or the accumulated text once the
\* await has returned, 'Generation cancelled' or 'Error: <message>' after the
\* catch block or a later onError callback
AssistantContent(req) ==
    CASE req.promise = "resolved" ->
             IF Trim(Accumulated(req)) = <<>> THEN <<NoResponse>>
             ELSE Accumulated(req)
      [] req.promise = "rejected" ->
             IF req.errorCalls = <<>> /\ ErrorName(req.reason) = "AbortError"
             THEN <<"Generation cancelled">>
             ELSE IF req.errorCalls = <<>> THEN <<"Error: ", req.reason>>
             ELSE <<"Error: ", req.errorCalls[Len(req.errorCalls)].arg>>
      [] OTHER ->
             IF Accumulated(req) = <<>> THEN <<"...">> ELSE Accumulated(req)

\* setUiError(message) in the onError callback and in the catch block
UiError(req) ==
    \/ req.errorCalls # <<>>
    \/ req.promise = "rejected" /\ ErrorName(req.reason) # "AbortError"

\* sendMessage: isGenerating admits one request at a time, each with the
\* signal of a fresh AbortController
SendMessage(h, id) ==
    /\ \A r \in DOMAIN reqs : reqs[r].promise # "pending"
    /\ GenerateStreamingText(h, id, "idle")

\* a chat screen holding a loaded handle, nothing sent yet
ChatInit ==
    /\ reqs = <<>>
    /\ subs = {}
    /\ nextRequestIdRef = 0
    /\ evCount = 0
    /\ modelHandle = Undefined
    /\ installed = {}
    /\ HookIdle
    /\ ExtIdle

ChatNext ==
    \/ \E h \in ManualHandles, id \in RandomIds : SendMessage(h, id)
    \/ \E r \in 1..MaxReq : Abort(r)
    \/ \E o \in 1..MaxReq, c \in ChatChunks : EmitPartial(o, c)
    \/ \E o \in 1..MaxReq, e \in EventErrors : EmitError(o, e)
    \/ \E r \in 1..MaxReq : NativeResolve(r)
    \/ \E r \in 1..MaxReq, e \in NativeErrors : NativeReject(r, e)

ChatSpec == ChatInit /\ [][ChatNext]_vars

----------------------------------------------------------------------------
(* Properties of the generation requests *)

Issued == {r \in DOMAIN reqs : reqs[r].native # "none"}

Pending(r) == reqs[r].promise = "pending"

Args(calls) == [i \in 1..Len(calls) |-> calls[i].arg]

\* C1: once a streaming request's promise is settled, no step invokes its
\* onPartial or onError again.
C1_NoCallbackAfterTerminal ==
    [][\A r \in DOMAIN reqs :
          (Streaming(reqs[r]) /\ ~Pending(r)) =>
              /\ reqs'[r].partialCalls = reqs[r].partialCalls
              /\ reqs'[r].errorCalls = reqs[r].errorCalls]_vars

\* C2: onError is invoked at most once per request, whatever the order of the
\* error event and the native call's completion.
C2_OnErrorAtMostOnce ==
    \A r \in DOMAIN reqs : Len(reqs[r].errorCalls) <= 1

\* C3: the step that triggers the cancellation token of a pending streaming
\* request removes both of its subscriptions and rejects its promise with
\* 'Aborted'.
C3_AbortDetachesAndRejects ==
    [][\A r \in DOMAIN reqs :
          (/\ Streaming(reqs[r])
           /\ Pending(r)
           /\ reqs[r].signal = "idle"
           /\ reqs'[r].signal = "aborted") =>
              /\ subs' \cap SubsOf(r) = {}
              /\ reqs'[r].promise = "rejected"
              /\ reqs'[r].reason = "Aborted"]_vars

\* a streaming request aborted before any partial event of its identity was
\* published, its native call still running
C3_Witness ==
    \E r \in DOMAIN reqs :
        /\ Streaming(reqs[r])
        /\ reqs[r].signal = "aborted"
        /\ reqs[r].native = "running"
        /\ reqs[r].seen = <<>>
        /\ reqs[r].promise = "rejected"
        /\ reqs[r].reason = "Aborted"
        /\ subs \cap SubsOf(r) = {}

C6_UniqueIdentity ==
    \A r1, r2 \in Issued :
        (r1 # r2 /\ Pending(r1) /\ Pending(r2)) =>
            ~(reqs[r1].handle = reqs[r2].handle
              /\ reqs[r1].requestId = reqs[r2].requestId)

\* C7: once an error event of a request's identity was published while the
\* request was pending and not aborted, onError has been invoked with the
\* event's error string, both subscriptions are gone and the promise is
\* rejected with that string.
C7_ErrorEventRejects ==
    \A r \in DOMAIN reqs :
        reqs[r].errEvent # "" =>
            /\ Len(reqs[r].errorCalls) >= 1
            /\ reqs[r].errorCalls[1].arg = reqs[r].errEvent
            /\ subs \cap SubsOf(r) = {}
            /\ reqs[r].promise = "rejected"
            /\ reqs[r].reason = reqs[r].errEvent

\* C8: a request whose native call resolved, with no error event and no
\* abort, has a resolved promise, and onPartial was invoked exactly with the
\* chunks of the partial events of its identity, in publication order.
C8_ResolveAfterPartials ==
    \A r \in DOMAIN reqs :
        (reqs[r].native = "resolved" /\ reqs[r].errEvent = "" /\ ~Aborted(reqs[r])) =>
            /\ reqs[r].promise = "resolved"
            /\ Args(reqs[r].partialCalls) = reqs[r].seen

\* the chunks "He", "llo" delivered in that order, then the call resolved
C8_Witness ==
    \E r \in DOMAIN reqs :
        /\ reqs[r].native = "resolved"
        /\ reqs[r].promise = "resolved"
        /\ ~Aborted(reqs[r])
        /\ reqs[r].seen = <<"He", "llo">>

\* C9: the step that triggers the cancellation token of a pending buffering
\* request removes both of its subscriptions and rejects its promise with
\* 'Aborted', as for a streaming request.
C9_BufferAbortLikeStream ==
    [][\A r \in DOMAIN reqs :
          (/\ reqs[r].kind = "buffer"
           /\ Pending(r)
           /\ reqs[r].signal = "idle"
           /\ reqs'[r].signal = "aborted") =>
              /\ subs' \cap SubsOf(r) = {}
              /\ reqs'[r].promise = "rejected"
              /\ reqs'[r].reason = "Aborted"]_vars

----------------------------------------------------------------------------
(* Properties of the asset/file hook *)

Released == {releaseCalls[k] : k \in DOMAIN releaseCalls}

\* C10: a handle returned by a create call that was superseded (configuration
\* changed or component torn down) before it resolved is never installed as
\* modelHandle, and releaseModel has been issued for it.
C10_StaleHandleReleased ==
    \A i \in DOMAIN creates :
        (creates[i].status = "resolved" /\ ~creates[i].wasActive) =>
            /\ creates[i].handle \notin installed
            /\ modelHandle # creates[i].handle
            /\ creates[i].handle \in Released

\* the first create call resolved after a configuration change had already
\* started a second one, which is still pending
C10_Witness ==
    /\ mounted
    /\ Len(creates) >= 2
    /\ creates[1].status = "resolved"
    /\ ~creates[1].wasActive
    /\ creates[2].status = "pending"
    /\ creates[2].active

----------------------------------------------------------------------------
(* Properties of the model-handle lifecycle of both hooks *)

\* C11: once the hook's component is torn down and no native create call is
\* pending any more, releaseModel has been issued for every handle a native
\* create call returned to the hook.
C11_CreatedHandlesReleased ==
    (~mounted /\ \A i \in DOMAIN creates : creates[i].status # "pending") =>
        \A i \in DOMAIN creates :
            creates[i].status = "resolved" => creates[i].handle \in Released

\* no two native releaseModel calls were issued for the same handle
NoDoubleRelease ==
    \A j, k \in DOMAIN releaseCalls : j # k => releaseCalls[j] # releaseCalls[k]

\* C12: whatever release requests, setups and teardowns have happened, no
\* handle has had two native releaseModel calls issued for it and no release
\* request has thrown to its caller.
C12_ReleaseIdempotent ==
    /\ NoDoubleRelease
    /\ ~releaseThrew

\* clearModelCache released the held handle (the native call rejected, which
\* was swallowed); the teardown then asked for a release with no handle held
C12_Witness ==
    /\ ~mounted
    /\ modelHandleRef = Undefined
    /\ Len(releaseCalls) = 1
    /\ \E r \in DOMAIN runs :
           /\ runs[r].op = "clear"
           /\ runs[r].pc # "release"
           /\ runs[r].released = releaseCalls[1]
           /\ ~runs[r].releaseOk

\* isLoaded of the hook's return value
IsLoaded == modelHandle # Undefined

\* C13: while the asset/file hook is mounted with a configuration, the latest
\* native create call is one for that configuration, and whenever isLoaded is
\* true the handle in use was returned by a create call for the current
\* configuration.
C13_LoadedHandleIsCurrent ==
    (mounted /\ config # NoConfig) =>
        /\ creates # <<>>
        /\ creates[Len(creates)].config = config
        /\ IsLoaded =>
               \E i \in DOMAIN creates :
                   /\ creates[i].handle = modelHandle
                   /\ creates[i].config = config

----------------------------------------------------------------------------
(* Properties of generation without a ready session *)

\* the handle references a session that was created and not released
Ready(h) == h # Undefined /\ h \notin Released

\* C14: a generation issued with a handle that references no ready session
\* comes back rejected, having registered no subscription and issued no native
\* generate call.
C14_NotReadyFailsUntouched ==
    [][Len(reqs') = Len(reqs) + 1 =>
          (~Ready(reqs'[Len(reqs')].handle) =>
              /\ reqs'[Len(reqs')].promise = "rejected"
              /\ reqs'[Len(reqs')].native = "none"
              /\ subs' = subs)]_vars

----------------------------------------------------------------------------
(* Properties of the downloads *)

\* C15: a ModelManager.downloadModel call for a name that is not registered
\* is rejected with the not-registered error; the step issues no native
\* downloadModel call, changes no record and runs no listener.
C15_UnregisteredDownloadRejects ==
    [][(/\ Len(downloads') = Len(downloads) + 1
        /\ downloads'[Len(downloads')].by = "manager"
        /\ downloads'[Len(downloads')].name \notin DOMAIN models) =>
           /\ downloads'[Len(downloads')].native = "none"
           /\ downloads'[Len(downloads')].caller = "thrown"
           /\ downloads'[Len(downloads')].error = NotRegistered
           /\ models' = models
           /\ notifyCount' = notifyCount]_vars

\* a download of a name that never was registered came back rejected while
\* another name is registered and its own download is under way
C15_Witness ==
    \E i, j \in DOMAIN downloads :
        /\ downloads[i].by = "manager"
        /\ downloads[i].name \notin DOMAIN models
        /\ downloads[i].native = "none"
        /\ downloads[i].caller = "thrown"
        /\ downloads[j].by = "manager"
        /\ downloads[j].name \in DOMAIN models
        /\ downloads[j].native = "pending"

\* C16: the step in which the native downloadModel call of a download rejects
\* sets the status (the record's for the ModelManager, running its listeners;
\* downloadStatus for the hook) to 'error' and throws the native error to the
\* caller; and a download call made while the status is 'error' issues a
\* native call and sets the status to 'downloading'.
C16_DownloadRejectionSurfaces ==
    [][/\ \A i \in DOMAIN downloads :
              (downloads[i].native = "pending" /\ downloads'[i].native = "rejected") =>
                  /\ downloads'[i].caller = "thrown"
                  /\ downloads'[i].error = downloads'[i].nativeError
                  /\ downloads[i].by = "manager" =>
                         /\ models'[downloads[i].name].status = "error"
                         /\ notifyCount' = notifyCount + 1
                  /\ downloads[i].by = "hook" =>
                         /\ downloadStatus' = "error"
                         /\ downloadError' = downloads'[i].nativeError
       /\ Len(downloads') = Len(downloads) + 1 =>
              /\ (/\ downloads'[Len(downloads')].by = "manager"
                  /\ ModelsGet(models, downloads'[Len(downloads')].name).status = "error") =>
                     /\ downloads'[Len(downloads')].native = "pending"
                     /\ models'[downloads'[Len(downloads')].name].status = "downloading"
              /\ (/\ downloads'[Len(downloads')].by = "hook"
                  /\ downloadStatus = "error") =>
                     /\ downloads'[Len(downloads')].native = "pending"
                     /\ downloadStatus' = "downloading"]_vars

\* the first ModelManager download of a name was rejected by the native
\* side, and a second download of that name is under way
C16_Witness ==
    \E i, j \in DOMAIN downloads :
        /\ i < j
        /\ downloads[i].by = "manager"
        /\ downloads[j].by = "manager"
        /\ downloads[i].name = downloads[j].name
        /\ downloads[i].native = "rejected"
        /\ downloads[i].caller = "thrown"
        /\ downloads[j].native = "pending"
        /\ models[downloads[j].name].status = "downloading"

\* C18: every stored progress value (the ModelManager records', and the hook's
\* downloadProgress) lies between 0 and 1, and within one download attempt
\* (no new download call, status 'downloading' before and after the step) it
\* does not decrease.
C18_ProgressMonotoneInRange ==
    [][/\ \A n \in DOMAIN models' :
              models'[n].progress \in {Undefined} \cup (0..1)
       /\ downloadProgress' \in 0..1
       /\ Len(downloads') = Len(downloads) =>
              /\ \A n \in DOMAIN models :
                     (/\ models[n].status = "downloading"
                      /\ models'[n].status = "downloading"
                      /\ models[n].progress # Undefined) =>
                         models'[n].progress >= models[n].progress
              /\ (downloadStatus = "downloading" /\ downloadStatus' = "downloading") =>
                     downloadProgress' >= downloadProgress]_vars

\* C19: the step that delivers a 'completed' event for a registered model
\* leaves its record with status 'downloaded' and progress 1, and the hook of
\* that model with downloadStatus 'downloaded' and downloadProgress 1.
C19_CompletedForcesOne ==
    [][(dlEvents' = dlEvents + 1 /\ lastNotice'.status = "completed") =>
          /\ lastNotice'.modelName \in DOMAIN models =>
                 /\ models'[lastNotice'.modelName].status = "downloaded"
                 /\ models'[lastNotice'.modelName].progress = 1
          /\ lastNotice'.modelName = HookModel =>
                 /\ downloadStatus' = "downloaded"
                 /\ downloadProgress' = 1]_vars

\* C20: the step that delivers the 'cancelled' notice of an acknowledged
\* cancelDownload, for a model whose download is in progress, leaves the
\* record with status 'not_downloaded' and progress 0, and likewise the hook
\* of that model.
C20_CancelledResets ==
    [][(dlEvents' = dlEvents + 1 /\ lastNotice'.status = "cancelled") =>
          /\ (/\ lastNotice'.modelName \in DOMAIN models
              /\ models[lastNotice'.modelName].status = "downloading") =>
                 /\ models'[lastNotice'.modelName].status = "not_downloaded"
                 /\ models'[lastNotice'.modelName].progress = 0
          /\ (lastNotice'.modelName = HookModel /\ downloadStatus = "downloading") =>
                 /\ downloadStatus' = "not_downloaded"
                 /\ downloadProgress' = 0]_vars

----------------------------------------------------------------------------
(* Properties of the ModelManager registry *)

\* C21: when the native deletion of a deleteModel call settles, the record of
\* a registered name is reset to 'not_downloaded' with no progress and every
\* observer is given the record map if the native call reported true; if it
\* reported false or rejected, the record map is left as it was and no
\* observer is called.
C21_DeleteResetsOnSuccessOnly ==
    [][\A i \in DOMAIN deletes :
          (deletes[i].native = "pending" /\ deletes'[i].native # "pending") =>
              IF /\ deletes'[i].native = "resolved"
                 /\ deletes'[i].result
                 /\ deletes[i].name \in DOMAIN models
              THEN /\ models'[deletes[i].name].status = "not_downloaded"
                   /\ models'[deletes[i].name].progress = Undefined
                   /\ models'[deletes[i].name].url = models[deletes[i].name].url
                   /\ notifyCount' = notifyCount + 1
                   /\ \A l \in DOMAIN observed : observed'[l] = models'
              ELSE /\ models' = models
                   /\ notifyCount' = notifyCount
                   /\ observed' = observed]_vars

\* a model found downloaded by its probe was deleted with success while an
\* observer was registered
C21_Witness ==
    /\ deletes # <<>>
    /\ deletes[1].native = "resolved" /\ deletes[1].result
    /\ deletes[1].name \in DOMAIN models
    /\ models[deletes[1].name].status = "not_downloaded"
    /\ probes = {}
    /\ notifyCount = 2
    /\ downloads = <<>> /\ dlEvents = 0
    /\ \E l \in DOMAIN observed : observed[l] = models

\* C22: a registerModel call either registers a name that was not registered
\* (one new record, one existence probe started) or, for a name already
\* registered, whatever url it carries, leaves every record (url, status,
\* progress) as it was and starts no probe.
C22_RegisterIdempotent ==
    [][registerCalls' = registerCalls + 1 =>
          \/ /\ \E n \in ModelNames \ DOMAIN models :
                    /\ DOMAIN models' = DOMAIN models \cup {n}
                    /\ models'[n].status = "not_downloaded"
                    /\ probes' = probes \cup {n}
              /\ \A o \in DOMAIN models : models'[o] = models[o]
              /\ probeCalls' = probeCalls + 1
          \/ /\ models' = models
              /\ probes' = probes
              /\ probeCalls' = probeCalls]_vars

\* registerModel was called again for a name whose record had moved on
C22_Witness ==
    /\ registerCalls = 2
    /\ probeCalls = 1 /\ probes = {}
    /\ \E n \in DOMAIN models :
           /\ models[n].status = "downloading"
           /\ models[n].progress = 1
           /\ models[n].url = "u1"

\* a download of name was started by the ModelManager ("manager") or by the
\* hook ("hook"), or events have moved its status away from the
\* 'not_downloaded' it had when the probe was started
DownloadUnderWay(by, name, status) ==
    \/ \E i \in DOMAIN downloads :
           /\ downloads[i].by = by
           /\ downloads[i].name = name
           /\ downloads[i].native # "none"
    \/ status # "not_downloaded"

\* C23: when an existence probe completes for a name whose download was
\* started (or advanced by events) while the probe was pending, the probe
\* changes neither status nor progress: of the ModelManager record for the
\* probe started by registration, of the hook for the probe started by mount.
C23_ProbeKeepsDownloadState ==
    [][/\ \A n \in probes \ probes' :
              DownloadUnderWay("manager", n, models[n].status) =>
                  /\ models'[n].status = models[n].status
                  /\ models'[n].progress = models[n].progress
       /\ (isCheckingStatus /\ ~isCheckingStatus'
              /\ DownloadUnderWay("hook", HookModel, downloadStatus)) =>
                  /\ downloadStatus' = downloadStatus
                  /\ downloadProgress' = downloadProgress]_vars

\* the step is a downloadModel call that asks for overwrite
ForcedDownloadStep ==
    /\ Len(downloads') = Len(downloads) + 1
    /\ downloads'[Len(downloads')].overwrite

\* C24: a record's status changes only along not_downloaded -> downloading,
\* downloading -> downloaded | error | not_downloaded, error -> downloading and
\* downloaded -> not_downloaded; downloaded -> downloading happens only in a
\* downloadModel call that asks for overwrite.  (The answer of the existence
\* probe, which fixes the status of a freshly registered record, is not
\* counted as a change.)
C24_StatusEdgesOnly ==
    [][\A n \in DOMAIN models :
          (models'[n].status # models[n].status /\ n \notin probes \ probes') =>
              \/ <<models[n].status, models'[n].status>> \in
                     {<<"not_downloaded", "downloading">>,
                      <<"downloading", "downloaded">>,
                      <<"downloading", "error">>,
                      <<"downloading", "not_downloaded">>,
                      <<"error", "downloading">>,
                      <<"downloaded", "not_downloaded">>}
              \/ /\ models[n].status = "downloaded"
                 /\ models'[n].status = "downloading"
                 /\ ForcedDownloadStep]_vars

\* C25: every step that changes the ModelManager record map (a new
\* registration, a probe result, a download start or failure, a progress
\* event for a registered name, a successful deletion) runs notifyListeners
\* once, and every registered observer is given the record map as the step
\* leaves it.
C25_MutationNotifiesAll ==
    [][models' # models =>
          /\ notifyCount' = notifyCount + 1
          /\ \A l \in DOMAIN observed : observed'[l] = models']_vars

----------------------------------------------------------------------------
(* Properties of the caller-visible result *)

\* the text of every partial event published for the request while it was
\* pending is whitespace (or there was no such event)
SaidNothing(req) == \A k \in DOMAIN req.seen : req.seen[k] \in Whitespace

\* what the caller of the request gets to see: the assistant message of the
\* chat screen for generateStreamingText, the returned text for the hook's
\* buffering generateResponse
Visible(req) == IF req.kind = "buffer" THEN req.result ELSE AssistantContent(req)

\* C26: a request whose native call resolved and whose partial events carried
\* no non-whitespace text shows the 'no content' sentinel, not an empty text;
\* a request that ended by error or abort does not show the sentinel.
C26_NoContentSentinel ==
    \A r \in DOMAIN reqs :
        reqs[r].kind \in {"text", "buffer"} =>
            /\ (/\ reqs[r].native = "resolved"
                /\ reqs[r].promise = "resolved"
                /\ SaidNothing(reqs[r])) =>
                    Visible(reqs[r]) = <<NoResponse>>
            /\ reqs[r].promise = "rejected" =>
                    Visible(reqs[r]) # <<NoResponse>>

\* C29: the text a resolved buffering generateResponse returns is the
\* concatenation, in publication order, of the chunks of the partial events
\* published with the request's identity while it was in flight.
C29_BufferedTextIsConcatenation ==
    \A r \in DOMAIN reqs :
        (reqs[r].kind = "buffer" /\ reqs[r].promise = "resolved") =>
            reqs[r].result = reqs[r].seen

\* chunks "He", "llo" were published and the call returned "Hello"
C29_Witness ==
    \E r \in DOMAIN reqs :
        /\ reqs[r].kind = "buffer"
        /\ reqs[r].promise = "resolved"
        /\ reqs[r].seen = <<"He", "llo">>
        /\ reqs[r].result = <<"He", "llo">>

\* C30: once the native generate call of a streaming request
\* (generateStreamingText, generateStreamingResponse) has resolved or
\* rejected, the request's promise is settled and neither of its
\* subscriptions is left on the bus, also when its signal was aborted before
\* the call was made.
C30_SettledOnceNativeDone ==
    \A r \in DOMAIN reqs :
        (Streaming(reqs[r]) /\ reqs[r].native \in {"resolved", "rejected"}) =>
            /\ reqs[r].promise # "pending"
            /\ SubsOf(r) \cap subs = {}

----------------------------------------------------------------------------
(* Properties of the calls to the native boundary *)

----------------------------------------------------------------------------
(* Properties of the downloadable hook's loadModel *)

\* the native create calls of the hook instance that have not settled
LoadsInFlight == {i \in DOMAIN creates : creates[i].status = "pending"}

\* the handles the native side has created and nobody has released
LiveHandles ==
    {creates[i].handle : i \in {j \in DOMAIN creates : creates[j].status = "resolved"}}
        \ Released

\* C31: at no time are two createModelFromDownloaded calls of the hook
\* instance in flight, and at no time do two handles it created exist
\* unreleased.
C31_OneLoadAtATime ==
    /\ Cardinality(LoadsInFlight) <= 1
    /\ Cardinality(LiveHandles) <= 1

\* C32: a loadModel call made while downloadStatus is not "downloaded" throws,
\* issues no native create call and leaves the handle unchanged.
C32_LoadThrowsUnlessDownloaded ==
    [][(Len(creates') = Len(creates) + 1 /\ downloadStatus # "downloaded") =>
           /\ creates'[Len(creates')].status = "thrown"
           /\ LoadsInFlight' = LoadsInFlight
           /\ modelHandle' = modelHandle]_vars

\* C32 (amended): a loadModel call made while downloadStatus is not
\* "downloaded" issues no native create call and leaves the handle unchanged;
\* it throws when the hook holds no handle and returns silently when it holds
\* one.
C32_LoadNeedsDownloadOrHandle ==
    [][(Len(creates') = Len(creates) + 1 /\ downloadStatus # "downloaded") =>
           /\ creates'[Len(creates')].status =
                  (IF modelHandle = Undefined THEN "thrown" ELSE "returned")
           /\ LoadsInFlight' = LoadsInFlight
           /\ modelHandle' = modelHandle
           /\ installed' = installed]_vars

\* a loadModel call has thrown while the model was being downloaded, and no
\* native create call was issued
C32_Witness ==
    /\ \E i \in DOMAIN creates : creates[i].status = "thrown"
    /\ downloadStatus = "downloading"
    /\ LoadsInFlight = {}
    /\ modelHandle = Undefined

----------------------------------------------------------------------------
(* Properties of LocalModelProvider's native handle *)

\* the handles createModel has returned to a setupModel run
ProviderHandles ==
    {runs[r].handle : r \in {q \in DOMAIN runs : runs[q].handle # Undefined}}

\* the setupModel runs waiting for createModel
CreatesInFlight == {r \in DOMAIN runs : runs[r].pc = "create"}

\* C33: the provider holds at most one live native handle: a handle createModel
\* returned is the one in modelHandleRef or has had releaseModel issued for
\* it, and while a createModel call is in flight the provider holds no handle
\* and waits for no other createModel call.
C33_OneLiveHandle ==
    /\ \A h \in ProviderHandles : h = modelHandleRef \/ h \in Released
    /\ CreatesInFlight # {} =>
           /\ modelHandleRef = Undefined
           /\ Cardinality(CreatesInFlight) = 1

\* the setupModel runs between their start and their finally block
SetupsInProgress == {r \in DOMAIN runs : runs[r].op = "setup" /\ runs[r].pc # "done"}

\* C34: while a setupModel run is in progress no step starts a further
\* setupModel or clearModelCache run.
C34_NoCallDuringSetup ==
    [][SetupsInProgress # {} => Len(runs') = Len(runs)]_vars

\* clearModelCache run r completes in this step reporting 'Model file removed'
ReportsRemoved(r) ==
    /\ r \in DOMAIN runs
    /\ runs[r].op = "clear"
    /\ runs[r].pc # "done"
    /\ runs'[r].pc = "done"
    /\ runs'[r].outcome = "removed"

\* C35: when clearModelCache completes reporting the file as removed, the file
\* no longer exists, and the handle the provider held had been released
\* before the deletion was attempted.
C35_RemovedMeansGone ==
    [][\A r \in 1..MaxRuns :
           ReportsRemoved(r) =>
               /\ file' = "absent"
               /\ runs[r].released # Undefined => runs[r].released \in Released]_vars

----------------------------------------------------------------------------
(* Properties of the chat screen's Stop button *)

\* the requests handleStop has aborted: generateStreamingText rejected them
\* with 'Aborted'
Stopped ==
    {r \in DOMAIN reqs : /\ reqs[r].signal = "aborted"
                         /\ reqs[r].promise = "rejected"
                         /\ reqs[r].reason = "Aborted"}

\* C36: the assistant message of a generation the user stopped reads
\* 'Generation cancelled', and no error is shown for it.
C36_StopShowsCancelled ==
    \A r \in Stopped :
        /\ AssistantContent(reqs[r]) = <<"Generation cancelled">>
        /\ ~UiError(reqs[r])

\* the native generations executing on handle h
Executing(h) == {r \in DOMAIN reqs : reqs[r].handle = h /\ reqs[r].native = "running"}

\* C37: at most one native generation is executing on the handle at any time.
C37_OneGenerationPerHandle ==
    \A h \in ManualHandles : Cardinality(Executing(h)) <= 1

----------------------------------------------------------------------------
(* Properties of the routing of downloadProgress events *)

\* this step publishes a downloadProgress event for name
EventFor(name) == dlEvents' = dlEvents + 1 /\ lastNotice'.modelName = name

\* C38: an event for a name that is not registered changes no record and
\* notifies no observer; an event for a name other than the hook's changes no
\* hook state; an event for one name never changes another name's record.
C38_EventsReachTheirModelOnly ==
    [][\A name \in ModelNames :
           EventFor(name) =>
               /\ ~ModelsHas(models, name) =>
                      /\ models' = models
                      /\ observed' = observed
                      /\ notifyCount' = notifyCount
               /\ name # HookModel =>
                      /\ downloadStatus' = downloadStatus
                      /\ downloadProgress' = downloadProgress
                      /\ downloadError' = downloadError
               /\ DOMAIN models' = DOMAIN models
               /\ \A other \in DOMAIN models \ {name} :
                      models'[other] = models[other]]_vars

\* two names are registered; an event for the one that is not the hook's has
\* changed its record and was shown to the observer, the hook's record and
\* the hook's own state are as they were
C38_Witness ==
    /\ DOMAIN models = ModelNames
    /\ lastNotice = [modelName |-> "m2", status |-> "downloading"]
    /\ models["m2"].status = "downloading"
    /\ models[HookModel].status = "not_downloaded"
    /\ downloadStatus = "not_downloaded"
    /\ "o1" \in DOMAIN observed
    /\ observed["o1"] = models

----------------------------------------------------------------------------
(* Properties of the unsubscribe function *)

\* this step is a call of the i-th unsubscribe function
Unsubscribing(i) ==
    /\ i \in DOMAIN unsubscribes
    /\ unsubscribes'[i].calls = unsubscribes[i].calls + 1

\* C39: a call of an unsubscribe function leaves its callback unregistered and
\* every other observer registered, and a call after the first changes
\* nothing.
C39_UnsubscribeOnce ==
    [][\A i \in 1..MaxSubscriptions :
           Unsubscribing(i) =>
               /\ unsubscribes[i].callback \notin DOMAIN observed'
               /\ \A o \in DOMAIN observed \ {unsubscribes[i].callback} :
                      o \in DOMAIN observed' /\ observed'[o] = observed[o]
               /\ unsubscribes[i].calls >= 1 => observed' = observed]_vars

----------------------------------------------------------------------------
(* Properties of the model file *)

\* C17: when an ensureModelFile call whose download failed returns to its
\* caller (removeModelFile has run and the error is rethrown), no file is
\* left at the model path.
C17_FailedDownloadLeavesNoFile ==
    [][\A r \in DOMAIN runs :
          (/\ runs[r].op = "setup"
           /\ runs[r].pc \in {"removeInfo", "delete"}
           /\ runs'[r].pc = "done") => file' = "absent"]_vars

====
